---- MODULE Spec2Model ----
(***************************************************************************)
(* Simulive playback synchronisation core of live-web:                     *)
(*   - src/lib/serverTime.ts      the time authority and offset estimator  *)
(*   - src/hooks/useSessionState  the lifecycle state machine              *)
(*   - hooks/useBatchSession      the schedule source of the session page  *)
(*   - src/components/StreamSync  the drift corrector of the video targets *)
(*                                                                         *)
(* Clock readings (Date.now(), lastSyncTime, scheduledStart) are integer   *)
(* milliseconds.  The estimator halves the round trip, so every quantity   *)
(* derived from serverTimeOffset is held as its exact numerator over       *)
(* LatencyDivisor, that is in half-milliseconds: serverTimeOffset, the     *)
(* value returned by getServerTime, the live offset, secondsToStart and    *)
(* liveOffset, the expected playback position and the currentTime of a     *)
(* video.  A live offset of x seconds is the integer x * UnitsPerSecond.   *)
(***************************************************************************)
EXTENDS Integers, FiniteSets, Sequences, TLC

\* ---------------------------------------------------------------- bounds
\* time probes one viewer may have in flight at once
MaxProbes == 2
\* loadBatch calls the page may have in flight at once
MaxLoads == 1
\* onStreamEnd invocations that are counted
MaxEnds == 2
\* seeks closer than the cooldown to their predecessor that are counted
MaxClose == 2
MaxSends == 2
MaxTimers == 2

\* ------------------------------------------------------ program constants
LatencyDivisor == 2
MsPerSecond == 1000
UnitsPerSecond == MsPerSecond * LatencyDivisor
SYNC_INTERVAL == 5 * 60 * 1000
COUNTDOWN_THRESHOLD == 60
STARTING_DURATION == 3
\* StreamSync.tsx: DRIFT_THRESHOLD is 0.5 s, held here in ms
DRIFT_THRESHOLD == 500
MIN_SYNC_INTERVAL == 3000
MESSAGE_COOLDOWN == 6000
MAX_MESSAGE_LENGTH == 500

\* --------------------------------------------------------- input domains
Viewers == {1, 2}
\* the viewer whose page (hooks) is modelled
Me == CHOOSE v \in Viewers : \A w \in Viewers : v <= w
\* constant error of a viewer's local clock against true time, ms
Skews == {0 - 3000, 0, 2000}
\* the clock errors of the viewer whose page is modelled
MySkews == {0, 2000}
\* scheduled start times a schedule can carry, ms of true time
StartTimes == {100000, 103000}
\* known video durations, seconds
Durations == {0, 2, 5}

None == <<>>
Some(x) == <<x>>
Known(o) == o # None
Val(o) == o[1]

Upto(b) == {b - 1, b}
\* true-time instants at which something is observed: a round trip of 0, 1
\* or 2 ms for the probes, and both sides of every threshold of the
\* lifecycle for a schedule starting at 100000
ProbeInstants == {99999, 100000, 100001}
\* and instants on both sides of the staleness window of a probe
TimeInstants == ProbeInstants \cup Upto(100000 + SYNC_INTERVAL + 1)
Instants ==
    Upto(100000 - COUNTDOWN_THRESHOLD * MsPerSecond) \cup Upto(100000)
        \cup Upto(100000 + STARTING_DURATION * MsPerSecond)
\* the instants the session page is observed at: before the countdown, at
\* the start, and 5 s in, where a stored duration of 5 s has elapsed
PageInstants == {100000 - COUNTDOWN_THRESHOLD * MsPerSecond - 1}
    \cup Upto(100000) \cup {100000 + 5 * MsPerSecond}
\* the instants the drift corrector is observed at, for a stream starting at
\* 100000: before the start, then 10 s in and around one cooldown later
SyncInstants == {99999, 110000} \cup Upto(110000 + MIN_SYNC_INTERVAL)
\* the video targets of a StreamSync instance
Targets == {"primary", "face"}
\* ids setInterval hands out
TimerIds == {1, 2}
\* positions playback can leave a video at, half-ms: 500 ms and 499.5 ms
\* behind the position expected 10 s in
Positions == {10 * UnitsPerSecond - DRIFT_THRESHOLD * LatencyDivisor,
              10 * UnitsPerSecond - DRIFT_THRESHOLD * LatencyDivisor + 1}
First(instants) == CHOOSE t \in instants : \A u \in instants : t <= u
Max(a, b) == IF a >= b THEN a ELSE b
Min(a, b) == IF a <= b THEN a ELSE b
Abs(x) == IF x >= 0 THEN x ELSE 0 - x

VARIABLES
    now,               \* true time, the time source's clock, ms
    skew,              \* skew[v]: local clock of v minus true time
    serverTimeOffset,  \* serverTime.ts:10, per viewer, half-ms
    isSynced,          \* serverTime.ts:13
    lastSyncTime,      \* serverTime.ts:16
    probes,            \* probes[v]: syncServerTime calls awaiting the fetch
    lastProbe,         \* history: the probe that completed last, per viewer
    reads,             \* history: the last getServerTime() return, per viewer
    props,             \* useSessionState: the options of the current render
    state,             \* useSessionState.ts:61
    secondsToStart,    \* useSessionState.ts:62, half-ms
    liveOffset,        \* useSessionState.ts:63, half-ms
    isTimeSynced,      \* useSessionState.ts:64
    interval,          \* the 100 ms timer of the tick effect is set
    initialSync,       \* the initial sync effect: unmounted, pending, done
    mountProps,        \* the options calculateState closes over in that effect
    session,           \* useBatchSession: the loaded session, if any
    loading,           \* useBatchSession: loading
    error,             \* useBatchSession: error message, "" for null
    pendingLoads,      \* loadBatch calls awaiting getBatch
    refreshTimers,     \* intervals set by initServerTime and still running
    syncMounted,       \* a StreamSync instance is mounted
    syncProps,         \* StreamSync: the props of the current render
    videos,            \* currentTime of the video behind each ref, half-ms
    syncLastSyncTime,  \* StreamSync.tsx:57, lastSyncTime.current
    checkIntervalId,   \* StreamSync.tsx:58, 0 for null
    syncTimers,        \* ids of the check timers that are set
    listeners,         \* visibilitychange listeners that are registered
    cleanupArmed,      \* the last run of the check-loop effect returned a cleanup
    checks,            \* history: flips at every run of syncVideos; who
                       \* made the last one and the targets it seeked
    seekLog,           \* history: per target, its last seek and what followed
    streamEnds,        \* history: onStreamEnd invocations, up to MaxEnds
    ready,             \* the element behind each ref has loaded its media
    threw,             \* history: the last step of the instance was a run of
                       \* syncVideos that a callback threw out of
    lastMessageTime,   \* useSession: lastMessageTime.current
    sends,             \* sendMessage calls suspended at an await
    sendResult,        \* history: how the last sendMessage step ended
    inserts,           \* history: the rows inserted into messages: the time
                       \* of the last one, the closest two came to each other
    hookVideo,         \* useStreamSync: the element behind videoRef, if the
                       \* hook is in use: its currentTime and duration
    hookLastSyncTime,  \* useStreamSync: lastSyncTime.current
    hookSeeked         \* history: the last run of syncVideo seeked

timeVars == <<now, skew, serverTimeOffset, isSynced, lastSyncTime, probes,
              lastProbe, reads>>
hookVars == <<props, state, secondsToStart, liveOffset, isTimeSynced,
              interval, initialSync, mountProps>>
pageVars == <<session, loading, error, pendingLoads, refreshTimers>>
syncVars == <<syncMounted, syncProps, videos, syncLastSyncTime,
              checkIntervalId, syncTimers, listeners, cleanupArmed,
              checks, seekLog, streamEnds, ready, threw>>
chatVars == <<lastMessageTime, sends, sendResult, inserts>>
twinVars == <<hookVideo, hookLastSyncTime, hookSeeked>>
vars == <<timeVars, hookVars, pageVars, syncVars, chatVars, twinVars>>

\* ------------------------------------------------------------ serverTime.ts
\* Date.now() of viewer v
DateNow(v) == now + skew[v]

\* a syncServerTime call suspended at `await fetchServerTime()`
Probe(v, then) == [clientBefore |-> DateNow(v), then |-> then]

\* timestamps the time source can return for a request sent at true time
\* sent and received at true time recv: the whole latency on the response,
\* on the request, or split evenly
ServerSamples(sent, recv) ==
    {sent, recv} \cup
        (IF (sent + recv) % LatencyDivisor = 0
         THEN {(sent + recv) \div LatencyDivisor} ELSE {})

\* variants of SyncOffset: the round trip ignored, the round trip not halved
SyncOffsetNoLatency(clientBefore, serverTime, clientAfter) ==
    LatencyDivisor * serverTime - LatencyDivisor * clientBefore
SyncOffsetFullTrip(clientBefore, serverTime, clientAfter) ==
    LatencyDivisor * serverTime - LatencyDivisor * clientAfter

\* lines 62-65: latency = (clientAfter - clientBefore) / 2;
\* serverTimeOffset = serverTime - (clientBefore + latency), in half-ms
SyncOffset(clientBefore, serverTime, clientAfter) ==
    LET latency == clientAfter - clientBefore
    IN  LatencyDivisor * serverTime - (LatencyDivisor * clientBefore + latency)

\* variant of NeedsSync: the refresh already due at SYNC_INTERVAL sharp
NeedsSyncAtInterval(synced, dateNow, lastSync) ==
    ~synced \/ dateNow - lastSync >= SYNC_INTERVAL

\* the test of getServerTime that starts a probe (line 78)
NeedsSync(synced, dateNow, lastSync) ==
    ~synced \/ dateNow - lastSync > SYNC_INTERVAL

\* variant of ServerTimeValue: the local clock, uncorrected
ServerTimeValueLocal(dateNow, offset) == LatencyDivisor * dateNow

\* the value getServerTime returns (line 83), half-ms
ServerTimeValue(dateNow, offset) == LatencyDivisor * dateNow + offset

\* getLiveOffset (lines 91-95), as the half-ms numerator of the seconds
LiveOffsetValue(scheduledStart, dateNow, offset) ==
    ServerTimeValue(dateNow, offset) - LatencyDivisor * scheduledStart

RemoveAt(s, i) == [j \in 1..(Len(s) - 1) |-> IF j < i THEN s[j] ELSE s[j + 1]]

\* the probes of v after v called getServerTime (lines 78-81)
ProbesAfterGet(v, inFlight) ==
    IF NeedsSync(isSynced[v], DateNow(v), lastSyncTime[v])
    THEN Append(inFlight, Probe(v, "none")) ELSE inFlight

\* syncServerTime after its await (lines 59-67); serverTime is what
\* fetchServerTime resolved to
SyncServerTimeResume(v, i, ok, serverTime) ==
    LET p == probes[v][i]
        clientAfter == DateNow(v)
    IN  /\ serverTimeOffset' = [serverTimeOffset EXCEPT ![v] =
                SyncOffset(p.clientBefore, serverTime, clientAfter)]
        /\ isSynced' = [isSynced EXCEPT ![v] = TRUE]
        /\ lastSyncTime' = [lastSyncTime EXCEPT ![v] = DateNow(v)]
        /\ probes' = [probes EXCEPT ![v] = RemoveAt(@, i)]
        /\ lastProbe' = [lastProbe EXCEPT ![v] =
                [ok |-> ok, clientBefore |-> p.clientBefore,
                 clientAfter |-> clientAfter, serverTime |-> serverTime]]

\* ------------------------------------------------------ useSessionState.ts
Options(start, duration, active) ==
    [scheduledStart |-> start, videoDuration |-> duration, isActive |-> active]
AllOptions ==
    {Options(s, d, a) : s \in {None} \cup {Some(t) : t \in StartTimes},
                        d \in {None} \cup {Some(x) : x \in Durations},
                        a \in BOOLEAN}
\* the options a page passes on its first render: no session loaded yet
NoSchedule == Options(None, None, FALSE)
\* the options the lifecycle is driven with
HookOptions ==
    {NoSchedule, Options(Some(100000), Some(5), FALSE),
     Options(Some(103000), Some(5), TRUE)}
        \cup {Options(Some(100000), d, TRUE) :
                d \in {None} \cup {Some(x) : x \in Durations}}
MountOptions == {NoSchedule, Options(Some(100000), Some(5), TRUE)}

\* the guard of calculateState and of the tick effect (lines 99, 143)
Present(p) == Known(p.scheduledStart) /\ p.isActive

\* variants of DeriveState: the countdown threshold taken inclusively, the
\* duration compared strictly, the end reported at the instant of the
\* duration only, an unknown duration taken as elapsed
DeriveStateInclusive(offset, videoDuration) ==
    IF offset <= (0 - COUNTDOWN_THRESHOLD) * UnitsPerSecond THEN "scheduled"
    ELSE IF offset < 0 THEN "countdown"
    ELSE IF offset < STARTING_DURATION * UnitsPerSecond THEN "starting"
    ELSE IF /\ Known(videoDuration)
            /\ Val(videoDuration) # 0
            /\ offset >= Val(videoDuration) * UnitsPerSecond THEN "ended"
    ELSE "live"
DeriveStateStrict(offset, videoDuration) ==
    IF offset < (0 - COUNTDOWN_THRESHOLD) * UnitsPerSecond THEN "scheduled"
    ELSE IF offset < 0 THEN "countdown"
    ELSE IF offset < STARTING_DURATION * UnitsPerSecond THEN "starting"
    ELSE IF /\ Known(videoDuration)
            /\ Val(videoDuration) # 0
            /\ offset > Val(videoDuration) * UnitsPerSecond THEN "ended"
    ELSE "live"
DeriveStateEndedOnce(offset, videoDuration) ==
    IF offset < (0 - COUNTDOWN_THRESHOLD) * UnitsPerSecond THEN "scheduled"
    ELSE IF offset < 0 THEN "countdown"
    ELSE IF offset < STARTING_DURATION * UnitsPerSecond THEN "starting"
    ELSE IF /\ Known(videoDuration)
            /\ Val(videoDuration) # 0
            /\ offset = Val(videoDuration) * UnitsPerSecond THEN "ended"
    ELSE "live"
DeriveStateNoDuration(offset, videoDuration) ==
    IF offset < (0 - COUNTDOWN_THRESHOLD) * UnitsPerSecond THEN "scheduled"
    ELSE IF offset < 0 THEN "countdown"
    ELSE IF offset < STARTING_DURATION * UnitsPerSecond THEN "starting"
    ELSE IF \/ ~Known(videoDuration)
            \/ offset >= Val(videoDuration) * UnitsPerSecond THEN "ended"
    ELSE "live"

\* the branch chain of calculateState (lines 111-126) on the live offset
\* (half-ms) and the videoDuration option
DeriveState(offset, videoDuration) ==
    IF offset < (0 - COUNTDOWN_THRESHOLD) * UnitsPerSecond THEN "scheduled"
    ELSE IF offset < 0 THEN "countdown"
    ELSE IF offset < STARTING_DURATION * UnitsPerSecond THEN "starting"
    ELSE IF /\ Known(videoDuration)
            /\ Val(videoDuration) # 0
            /\ offset >= Val(videoDuration) * UnitsPerSecond THEN "ended"
    ELSE "live"

\* variants of Calculated: the live offset not clamped at zero; a missing
\* schedule reported as the error state
CalculatedSigned(p, dateNow, offset, synced, cur) ==
    IF ~Present(p)
    THEN [cur EXCEPT !.state = "loading"]
    ELSE LET o == LiveOffsetValue(Val(p.scheduledStart), dateNow, offset)
         IN  [state |-> DeriveState(o, p.videoDuration),
              secondsToStart |-> 0 - o,
              liveOffset |-> o,
              isTimeSynced |-> synced]
CalculatedAbsentError(p, dateNow, offset, synced, cur) ==
    IF ~Present(p)
    THEN [cur EXCEPT !.state = "error"]
    ELSE LET o == LiveOffsetValue(Val(p.scheduledStart), dateNow, offset)
         IN  [state |-> DeriveState(o, p.videoDuration),
              secondsToStart |-> 0 - o,
              liveOffset |-> Max(0, o),
              isTimeSynced |-> synced]

\* the hook's fields after calculateState (lines 98-127) ran on options p,
\* with the time authority reading dateNow, offset, synced; cur holds the
\* fields before the call
Calculated(p, dateNow, offset, synced, cur) ==
    IF ~Present(p)
    THEN [cur EXCEPT !.state = "loading"]
    ELSE LET o == LiveOffsetValue(Val(p.scheduledStart), dateNow, offset)
         IN  [state |-> DeriveState(o, p.videoDuration),
              secondsToStart |-> 0 - o,
              liveOffset |-> Max(0, o),
              isTimeSynced |-> synced]

HookFields ==
    [state |-> state, secondsToStart |-> secondsToStart,
     liveOffset |-> liveOffset, isTimeSynced |-> isTimeSynced]

SetHookFields(f) ==
    /\ state' = f.state
    /\ secondsToStart' = f.secondsToStart
    /\ liveOffset' = f.liveOffset
    /\ isTimeSynced' = f.isTimeSynced

\* calculateState called on options p from a timer or an effect of Me, the
\* probes of Me being inFlight; later starts the probes that the rest of the
\* same handler starts
CalculateState(p, inFlight, later) ==
    /\ SetHookFields(Calculated(p, DateNow(Me), serverTimeOffset[Me],
                                isSynced[Me], HookFields))
    /\ LET after == IF Present(p) THEN ProbesAfterGet(Me, inFlight)
                    ELSE inFlight
       IN  /\ Len(after \o later) <= MaxProbes
           /\ probes' = [probes EXCEPT ![Me] = after \o later]

\* the completion callback of the initial sync effect (lines 133-136), run
\* right after syncServerTime resumed: calculateState is the one of the
\* first render
InitialSyncThen ==
    /\ SetHookFields(Calculated(mountProps, DateNow(Me), serverTimeOffset'[Me],
                                isSynced'[Me],
                                [HookFields EXCEPT !.isTimeSynced = TRUE]))
    /\ initialSync' = "done"
    /\ UNCHANGED <<props, interval, mountProps>>

\* ------------------------------------------------------------------ actions
\* time passes
Advance(instants) ==
    /\ \E t \in instants : t > now /\ now' = t
    /\ UNCHANGED <<skew, serverTimeOffset, isSynced, lastSyncTime, probes,
                   lastProbe, reads>>
    /\ UNCHANGED hookVars
    /\ UNCHANGED pageVars
    /\ UNCHANGED syncVars
    /\ UNCHANGED chatVars
    /\ UNCHANGED twinVars

\* some caller invokes syncServerTime() (lines 56-58)
StartProbe(v) ==
    /\ Len(probes[v]) < MaxProbes
    /\ probes' = [probes EXCEPT ![v] = Append(@, Probe(v, "none"))]
    /\ UNCHANGED <<now, skew, serverTimeOffset, isSynced, lastSyncTime,
                   lastProbe, reads>>
    /\ UNCHANGED hookVars
    /\ UNCHANGED pageVars
    /\ UNCHANGED syncVars
    /\ UNCHANGED chatVars
    /\ UNCHANGED twinVars

\* initServerTime after its await (lines 118-121): the periodic refresh
InitServerTimeThen ==
    /\ refreshTimers' = refreshTimers + 1
    /\ UNCHANGED <<session, loading, error, pendingLoads>>

\* what follows the resumption of probe i of v
ProbeThen(v, i) ==
    /\ IF probes[v][i].then = "hook" THEN InitialSyncThen
       ELSE UNCHANGED hookVars
    /\ IF probes[v][i].then = "init" THEN InitServerTimeThen
       ELSE UNCHANGED pageVars

\* some caller invokes initServerTime() (lines 115-117): SessionPage does at
\* every mount (SessionPage.tsx lines 69-71)
InitServerTime(v) ==
    /\ Len(probes[v]) < MaxProbes
    /\ refreshTimers
         + Cardinality({i \in 1..Len(probes[v]) : probes[v][i].then = "init"})
           < MaxTimers
    /\ probes' = [probes EXCEPT ![v] = Append(@, Probe(v, "init"))]
    /\ UNCHANGED <<now, skew, serverTimeOffset, isSynced, lastSyncTime,
                   lastProbe, reads>>
    /\ UNCHANGED hookVars
    /\ UNCHANGED pageVars
    /\ UNCHANGED syncVars
    /\ UNCHANGED chatVars
    /\ UNCHANGED twinVars

\* an interval set by initServerTime fires (lines 119-121)
RefreshTick(v) ==
    /\ refreshTimers > 0
    /\ Len(probes[v]) < MaxProbes
    /\ probes' = [probes EXCEPT ![v] = Append(@, Probe(v, "none"))]
    /\ UNCHANGED <<now, skew, serverTimeOffset, isSynced, lastSyncTime,
                   lastProbe, reads>>
    /\ UNCHANGED hookVars
    /\ UNCHANGED pageVars
    /\ UNCHANGED syncVars
    /\ UNCHANGED chatVars
    /\ UNCHANGED twinVars

\* the fetch of a probe answers with the time source's timestamp (line 44)
ProbeSucceeds(v) ==
    /\ \E i \in 1..Len(probes[v]) :
         /\ \E s \in ServerSamples(probes[v][i].clientBefore - skew[v], now) :
                SyncServerTimeResume(v, i, TRUE, s)
         /\ ProbeThen(v, i)
    /\ UNCHANGED <<now, skew, reads>>
    /\ UNCHANGED syncVars
    /\ UNCHANGED chatVars
    /\ UNCHANGED twinVars

\* the fetch of a probe fails: fetchServerTime catches and returns
\* Date.now() (lines 45-49)
ProbeFails(v) ==
    /\ \E i \in 1..Len(probes[v]) :
         /\ SyncServerTimeResume(v, i, FALSE, DateNow(v))
         /\ ProbeThen(v, i)
    /\ UNCHANGED <<now, skew, reads>>
    /\ UNCHANGED syncVars
    /\ UNCHANGED chatVars
    /\ UNCHANGED twinVars

\* some caller invokes getServerTime() (lines 76-84)
GetServerTime(v) ==
    /\ LET after == ProbesAfterGet(v, probes[v])
       IN  /\ Len(after) <= MaxProbes
           /\ probes' = [probes EXCEPT ![v] = after]
    /\ reads' = [reads EXCEPT ![v] =
            [seq |-> 1 - @.seq,
             value |-> ServerTimeValue(DateNow(v), serverTimeOffset[v])]]
    /\ UNCHANGED <<now, skew, serverTimeOffset, isSynced, lastSyncTime,
                   lastProbe>>
    /\ UNCHANGED hookVars
    /\ UNCHANGED pageVars
    /\ UNCHANGED syncVars
    /\ UNCHANGED chatVars
    /\ UNCHANGED twinVars

\* the first render of useSessionState with options p and its two effects:
\* the initial sync (lines 132-137), then the tick effect (lines 142-152);
\* later holds the probes the effects of the caller start after them
HookMount(p, later) ==
    /\ initialSync = "unmounted"
    /\ initialSync' = "pending"
    /\ mountProps' = p
    /\ props' = p
    /\ interval' = Present(p)
    /\ LET started == Append(probes[Me], Probe(Me, "hook"))
       IN  IF Present(p)
           THEN CalculateState(p, started, later)
           ELSE /\ Len(started \o later) <= MaxProbes
                /\ probes' = [probes EXCEPT ![Me] = started \o later]
                /\ UNCHANGED <<state, secondsToStart, liveOffset, isTimeSynced>>

\* a render of the mounted hook with options p: when they changed, the tick
\* effect is cleaned up and run again (lines 142-152)
HookRender(p) ==
    /\ props' = p
    /\ interval' = Present(p)
    /\ IF p # props /\ Present(p)
       THEN CalculateState(p, probes[Me], <<>>)
       ELSE UNCHANGED <<state, secondsToStart, liveOffset, isTimeSynced,
                        probes>>
    /\ UNCHANGED <<initialSync, mountProps>>

\* a component mounts useSessionState with options p
Mount(p) ==
    /\ HookMount(p, <<>>)
    /\ UNCHANGED <<now, skew, serverTimeOffset, isSynced, lastSyncTime,
                   lastProbe, reads>>
    /\ UNCHANGED pageVars
    /\ UNCHANGED syncVars
    /\ UNCHANGED chatVars
    /\ UNCHANGED twinVars

\* the component renders again with changed options p
SetInputs(p) ==
    /\ initialSync # "unmounted"
    /\ p # props
    /\ HookRender(p)
    /\ UNCHANGED <<now, skew, serverTimeOffset, isSynced, lastSyncTime,
                   lastProbe, reads>>
    /\ UNCHANGED pageVars
    /\ UNCHANGED syncVars
    /\ UNCHANGED chatVars
    /\ UNCHANGED twinVars

\* the 100 ms timer fires (line 149)
Tick ==
    /\ interval
    /\ CalculateState(props, probes[Me], <<>>)
    /\ UNCHANGED <<now, skew, serverTimeOffset, isSynced, lastSyncTime,
                   lastProbe, reads, props, interval, initialSync, mountProps>>
    /\ UNCHANGED pageVars
    /\ UNCHANGED syncVars
    /\ UNCHANGED chatVars
    /\ UNCHANGED twinVars

\* ------------------------------------------- useBatchSession, SessionPage
\* what getBatch can resolve to: the batch time and whether it has a stream
Batches ==
    {[time |-> 100000, hasUrl |-> TRUE], [time |-> 100000, hasUrl |-> FALSE],
     [time |-> 103000, hasUrl |-> TRUE]}
\* the duration of a stored stream-end record, if localStorage has one
StoredDurations == {None, Some(5)}

\* the session loadBatch builds from a batch (part_000 lines 706-716)
BatchSession(batch, stored) ==
    [scheduledStart |-> batch.time, isValid |-> batch.hasUrl,
     videoDuration |-> stored]

\* the options SessionPage passes to useSessionState (lines 55-59)
PageOptions(s) ==
    IF Known(s) THEN Options(Some(Val(s).scheduledStart), None, Val(s).isValid)
    ELSE Options(None, None, FALSE)

\* what SessionPage renders (lines 102-168)
Screen ==
    IF loading THEN "loading"
    ELSE IF error # "" \/ ~Known(session) THEN "not-found"
    ELSE IF state \in {"scheduled", "countdown"} THEN "countdown"
    ELSE IF state = "starting" THEN "starting"
    ELSE IF state = "ended" THEN "ended"
    ELSE "player"

\* the first render of SessionPage and its effects in order: loadBatch of
\* useBatchSession, the two effects of useSessionState, initServerTime
PageMount ==
    /\ pendingLoads < MaxLoads
    /\ pendingLoads' = pendingLoads + 1
    /\ loading' = TRUE
    /\ error' = ""
    /\ HookMount(PageOptions(session), <<Probe(Me, "init")>>)
    /\ UNCHANGED <<now, skew, serverTimeOffset, isSynced, lastSyncTime,
                   lastProbe, reads, session, refreshTimers>>
    /\ UNCHANGED syncVars
    /\ UNCHANGED chatVars
    /\ UNCHANGED twinVars

\* the batch id of the route changes: loadBatch runs again (lines 679-681)
ChangeBatch ==
    /\ initialSync # "unmounted"
    /\ pendingLoads < MaxLoads
    /\ pendingLoads' = pendingLoads + 1
    /\ loading' = TRUE
    /\ error' = ""
    /\ UNCHANGED <<session, refreshTimers>>
    /\ UNCHANGED timeVars
    /\ UNCHANGED hookVars
    /\ UNCHANGED syncVars
    /\ UNCHANGED chatVars
    /\ UNCHANGED twinVars

\* getBatch resolves to a batch (lines 692-718, 722-724), and the page
\* renders with the new session
LoadBatchFound ==
    /\ pendingLoads > 0
    /\ pendingLoads' = pendingLoads - 1
    /\ \E batch \in Batches, stored \in StoredDurations :
         session' = Some(BatchSession(batch, stored))
    /\ loading' = FALSE
    /\ HookRender(PageOptions(session'))
    /\ UNCHANGED <<now, skew, serverTimeOffset, isSynced, lastSyncTime,
                   lastProbe, reads, error, refreshTimers>>
    /\ UNCHANGED syncVars
    /\ UNCHANGED chatVars
    /\ UNCHANGED twinVars

\* getBatch resolves to null (lines 686-690)
LoadBatchMissing ==
    /\ pendingLoads > 0
    /\ pendingLoads' = pendingLoads - 1
    /\ error' = "Session not found"
    /\ loading' = FALSE
    /\ UNCHANGED <<session, refreshTimers>>
    /\ UNCHANGED timeVars
    /\ UNCHANGED hookVars
    /\ UNCHANGED syncVars
    /\ UNCHANGED chatVars
    /\ UNCHANGED twinVars

\* reading the stored stream-end record throws (lines 719-724)
LoadBatchThrows ==
    /\ pendingLoads > 0
    /\ pendingLoads' = pendingLoads - 1
    /\ error' = "Failed to load session"
    /\ loading' = FALSE
    /\ UNCHANGED <<session, refreshTimers>>
    /\ UNCHANGED timeVars
    /\ UNCHANGED hookVars
    /\ UNCHANGED syncVars
    /\ UNCHANGED chatVars
    /\ UNCHANGED twinVars

\* ------------------------------------------------------------ StreamSync.tsx
StreamProps(start, live, duration) ==
    [scheduledStart |-> start, isLive |-> live, videoDuration |-> duration]
\* the props a StreamSync instance is rendered with
StreamOptions ==
    {StreamProps(None, TRUE, None), StreamProps(Some(100000), FALSE, None),
     StreamProps(Some(100000), TRUE, None), StreamProps(Some(100000), TRUE, Some(0)),
     StreamProps(Some(100000), TRUE, Some(13))}
NoVideos == [x \in Targets |-> None]
NoneReady == [x \in Targets |-> FALSE]
AllLoaded == [x \in Targets |-> TRUE]
NoSeeks ==
    [x \in Targets |->
        [prev |-> None, last |-> None, resumed |-> FALSE, between |-> FALSE,
         close |-> 0]]
NoChecks == [seq |-> 0, resume |-> FALSE, seeked |-> {}, synced |-> None]

\* variant of ExpectedTime: a negative offset returned as it is
ExpectedTimeSigned(p, dateNow, offset) ==
    IF ~Known(p.scheduledStart) THEN None
    ELSE Some(LiveOffsetValue(Val(p.scheduledStart), dateNow, offset))

\* getExpectedTime (lines 64-74): the expected position, half-ms, or null
ExpectedTime(p, dateNow, offset) ==
    IF ~Known(p.scheduledStart) THEN None
    ELSE LET o == LiveOffsetValue(Val(p.scheduledStart), dateNow, offset)
         IN  IF o < 0 THEN None ELSE Some(o)

\* variant of Drifted: the threshold reached half a millisecond early
DriftedEarly(currentTime, expectedTime) ==
    Abs(currentTime - expectedTime) >= DRIFT_THRESHOLD * LatencyDivisor - 1

\* Math.abs(currentTime - expectedTime) >= DRIFT_THRESHOLD (lines 84-88,
\* 120-121, 135-136)
Drifted(currentTime, expectedTime) ==
    Abs(currentTime - expectedTime) >= DRIFT_THRESHOLD * LatencyDivisor

\* videoDuration && expectedTime >= videoDuration (line 110)
StreamEnded(videoDuration, expectedTime) ==
    /\ Known(videoDuration)
    /\ Val(videoDuration) # 0
    /\ expectedTime >= Val(videoDuration) * UnitsPerSecond

\* variants of CooledDown: the interval taken strictly; half the cooldown;
\* no cooldown
CooledDownStrict(dateNow, last) == dateNow - last > MIN_SYNC_INTERVAL
CooledDownHalf(dateNow, last) == dateNow - last >= MIN_SYNC_INTERVAL \div 2
CooledDownAlways(dateNow, last) == TRUE

\* the negation of timeSinceLastSync < MIN_SYNC_INTERVAL (lines 117, 126)
CooledDown(dateNow, last) == dateNow - last >= MIN_SYNC_INTERVAL

\* variant of SyncVideoElement: the seek lands half a millisecond short
SyncVideoElementShort(video, expectedTime) ==
    IF Drifted(Val(video), expectedTime) THEN Some(expectedTime - 1) ELSE video

\* syncVideoElement (lines 79-97): the element after the call
SyncVideoElement(video, expectedTime) ==
    IF Drifted(Val(video), expectedTime) THEN Some(expectedTime) ELSE video

\* variants of StampAfterSync: the ref cleared; the time of the sync not
\* recorded
StampAfterSyncCleared(primarySynced, dateNow, last) == 0
StampAfterSyncKept(primarySynced, dateNow, last) == last

\* lastSyncTime.current after the two elements were synced (lines 141-144)
StampAfterSync(primarySynced, dateNow, last) ==
    IF primarySynced THEN dateNow ELSE last

\* syncVideos (lines 102-145) on props p, the video elements vids and
\* lastSyncTime.current = last: the elements and the ref after the call, and
\* whether onStreamEnd was invoked, and the argument of onSync if it was
SyncVideos(p, vids, last, dateNow, offset) ==
    LET idle == [videos |-> vids, lastSyncTime |-> last, ended |-> FALSE,
                 synced |-> None]
        expectedTime == ExpectedTime(p, dateNow, offset)
    IN  IF ~Known(vids.primary) \/ ~p.isLive THEN idle
        ELSE IF ~Known(expectedTime) THEN idle
        ELSE IF StreamEnded(p.videoDuration, Val(expectedTime))
             THEN [idle EXCEPT !.ended = TRUE]
        ELSE IF ~Drifted(Val(vids.primary), Val(expectedTime)) THEN idle
        ELSE IF ~CooledDown(dateNow, last) THEN idle
        ELSE LET primary == SyncVideoElement(vids.primary, Val(expectedTime))
                 face == IF /\ Known(vids.face)
                            /\ Drifted(Val(vids.face), Val(expectedTime))
                         THEN SyncVideoElement(vids.face, Val(expectedTime))
                         ELSE vids.face
             IN  [videos |-> [primary |-> primary, face |-> face],
                  lastSyncTime |->
                      StampAfterSync(primary # vids.primary, dateNow, last),
                  ended |-> FALSE,
                  synced |-> IF primary # vids.primary THEN expectedTime
                             ELSE None]

\* the seek history after a run of syncVideos that turned vids into after;
\* resume tells that the visibility handler made the call
SeekLogAfter(vids, after, resume) ==
    [x \in Targets |->
        LET base == IF resume
                    THEN [seekLog[x] EXCEPT !.resumed = TRUE, !.close = 0]
                    ELSE seekLog[x]
            near == /\ Known(base.last)
                    /\ DateNow(Me) - Val(base.last) < MIN_SYNC_INTERVAL
        IN  IF after[x] # vids[x]
            THEN [prev |-> base.last, last |-> Some(DateNow(Me)),
                  resumed |-> FALSE, between |-> base.resumed,
                  close |-> IF near THEN Min(base.close + 1, MaxClose)
                            ELSE base.close]
            ELSE base]

\* a call of syncVideos by Me: the elements, the ref, the probe that
\* getServerTime may start (serverTime.ts lines 78-81), and the history
RunSyncVideos(p, vids, last, resume) ==
    LET r == SyncVideos(p, vids, last, DateNow(Me), serverTimeOffset[Me])
        asks == Known(vids.primary) /\ p.isLive /\ Known(p.scheduledStart)
        after == IF asks THEN ProbesAfterGet(Me, probes[Me]) ELSE probes[Me]
    IN  /\ videos' = r.videos
        /\ syncLastSyncTime' = r.lastSyncTime
        /\ Len(after) <= MaxProbes
        /\ probes' = [probes EXCEPT ![Me] = after]
        /\ checks' = [seq |-> 1 - checks.seq, resume |-> resume,
                      seeked |-> {x \in Targets : r.videos[x] # vids[x]},
                      synced |-> r.synced]
        /\ seekLog' = SeekLogAfter(vids, r.videos, resume)
        /\ streamEnds' = IF r.ended THEN Min(streamEnds + 1, MaxEnds)
                         ELSE streamEnds

\* variant of TimersAfterCleanup: the timer left running
TimersAfterCleanupLeak(timers, id) == timers

\* the timers after the cleanup of the check-loop effect (lines 177-179)
TimersAfterCleanup(timers, id) == IF id # 0 THEN timers \ {id} ELSE timers

\* the timers and listeners once the cleanup of the last effect run, if it
\* returned one, has run (lines 176-181)
Cleaned ==
    IF cleanupArmed
    THEN [timers |-> TimersAfterCleanup(syncTimers, checkIntervalId),
          listeners |-> listeners - 1]
    ELSE [timers |-> syncTimers, listeners |-> listeners]

\* the check-loop effect (lines 162-182) run on props p and elements vids
\* after the cleanup left c
CheckLoopEffect(p, vids, c) ==
    IF ~p.isLive \/ ~Known(p.scheduledStart)
    THEN /\ syncTimers' = c.timers
         /\ listeners' = c.listeners
         /\ cleanupArmed' = FALSE
         /\ videos' = vids
         /\ UNCHANGED <<checkIntervalId, syncLastSyncTime, probes, checks,
                        seekLog, streamEnds>>
    ELSE /\ RunSyncVideos(p, vids, syncLastSyncTime, FALSE)
         /\ \E id \in TimerIds :
              /\ id \notin c.timers /\ id # checkIntervalId
              /\ \A other \in TimerIds :
                    (other \notin c.timers /\ other # checkIntervalId)
                        => id <= other
              /\ checkIntervalId' = id
              /\ syncTimers' = c.timers \cup {id}
         /\ listeners' = c.listeners + 1
         /\ cleanupArmed' = TRUE

\* variant of VisibleLastSyncTime: the cooldown left running
VisibleLastSyncTimeKept(last) == last

\* lastSyncTime.current as handleVisibilityChange sets it (line 154)
VisibleLastSyncTime(last) == 0

\* the elements of a mount where the face video is there or not
Elements(face) == [primary |-> Some(0), face |-> face]

\* a StreamSync instance mounts with props p, the face video being there or
\* not (DualVideoPlayer.tsx lines 178-221); loaded tells which elements
\* have their media by then
SyncMount(p, face, loaded) ==
    /\ ~syncMounted
    /\ syncMounted' = TRUE
    /\ syncProps' = p
    /\ CheckLoopEffect(p, Elements(face), Cleaned)
    /\ ready' = [x \in Targets |-> loaded[x] /\ Known(Elements(face)[x])]
    /\ threw' = FALSE
    /\ UNCHANGED <<now, skew, serverTimeOffset, isSynced, lastSyncTime,
                   lastProbe, reads>>
    /\ UNCHANGED hookVars
    /\ UNCHANGED pageVars
    /\ UNCHANGED chatVars
    /\ UNCHANGED twinVars

\* the instance renders with props p and the effect runs again: a prop or
\* a callback of the parent changed (line 182)
SyncRender(p) ==
    /\ syncMounted
    /\ syncProps' = p
    /\ CheckLoopEffect(p, videos, Cleaned)
    /\ threw' = FALSE
    /\ UNCHANGED <<syncMounted, ready>>
    /\ UNCHANGED <<now, skew, serverTimeOffset, isSynced, lastSyncTime,
                   lastProbe, reads>>
    /\ UNCHANGED hookVars
    /\ UNCHANGED pageVars
    /\ UNCHANGED chatVars
    /\ UNCHANGED twinVars

\* the instance unmounts: the cleanup runs, the refs and the elements go
SyncUnmount ==
    /\ syncMounted
    /\ syncMounted' = FALSE
    /\ syncTimers' = Cleaned.timers
    /\ listeners' = Cleaned.listeners
    /\ cleanupArmed' = FALSE
    /\ videos' = NoVideos
    /\ syncLastSyncTime' = 0
    /\ checkIntervalId' = 0
    /\ seekLog' = NoSeeks
    /\ streamEnds' = 0
    /\ syncProps' = StreamProps(None, FALSE, None)
    /\ checks' = NoChecks
    /\ ready' = NoneReady
    /\ threw' = FALSE
    /\ UNCHANGED timeVars
    /\ UNCHANGED hookVars
    /\ UNCHANGED pageVars
    /\ UNCHANGED chatVars
    /\ UNCHANGED twinVars

\* a check timer fires (line 171)
SyncTick ==
    /\ syncTimers # {}
    /\ RunSyncVideos(syncProps, videos, syncLastSyncTime, FALSE)
    /\ threw' = FALSE
    /\ UNCHANGED <<syncMounted, syncProps, checkIntervalId, syncTimers,
                   listeners, cleanupArmed, ready>>
    /\ UNCHANGED <<now, skew, serverTimeOffset, isSynced, lastSyncTime,
                   lastProbe, reads>>
    /\ UNCHANGED hookVars
    /\ UNCHANGED pageVars
    /\ UNCHANGED chatVars
    /\ UNCHANGED twinVars

\* a visibilitychange event reaches the registered handleVisibilityChange
\* (lines 151-157), the document being visible or hidden
VisibilityChange(visible) ==
    /\ listeners > 0
    /\ IF visible
       THEN RunSyncVideos(syncProps, videos,
                          VisibleLastSyncTime(syncLastSyncTime), TRUE)
       ELSE UNCHANGED <<videos, syncLastSyncTime, probes, checks, seekLog,
                        streamEnds>>
    /\ threw' = FALSE
    /\ UNCHANGED <<syncMounted, syncProps, checkIntervalId, syncTimers,
                   listeners, cleanupArmed, ready>>
    /\ UNCHANGED <<now, skew, serverTimeOffset, isSynced, lastSyncTime,
                   lastProbe, reads>>
    /\ UNCHANGED hookVars
    /\ UNCHANGED pageVars
    /\ UNCHANGED chatVars
    /\ UNCHANGED twinVars

\* time passes for the instance; a probe is answered before it does
SyncAdvance ==
    /\ probes[Me] = <<>>
    /\ Advance(SyncInstants)

\* playback moves the videos: each element that is there and has its media
\* ends up somewhere
Playback ==
    /\ syncMounted
    /\ \E to \in [Targets -> Positions] :
         /\ videos' = [x \in Targets |->
                          IF Known(videos[x]) /\ ready[x] THEN Some(to[x])
                          ELSE videos[x]]
         /\ videos' # videos
    /\ UNCHANGED <<syncMounted, syncProps, syncLastSyncTime, checkIntervalId,
                   syncTimers, listeners, cleanupArmed, checks, seekLog,
                   streamEnds, ready, threw>>
    /\ UNCHANGED timeVars
    /\ UNCHANGED hookVars
    /\ UNCHANGED pageVars
    /\ UNCHANGED chatVars
    /\ UNCHANGED twinVars

\* the element behind ref x gets its media (DualVideoPlayer.tsx lines
\* 188-221: the sources load after the elements are rendered)
MediaLoaded(x) ==
    /\ syncMounted
    /\ Known(videos[x])
    /\ ~ready[x]
    /\ ready' = [ready EXCEPT ![x] = TRUE]
    /\ UNCHANGED <<syncMounted, syncProps, videos, syncLastSyncTime,
                   checkIntervalId, syncTimers, listeners, cleanupArmed,
                   checks, seekLog, streamEnds, threw>>
    /\ UNCHANGED timeVars
    /\ UNCHANGED hookVars
    /\ UNCHANGED pageVars
    /\ UNCHANGED chatVars
    /\ UNCHANGED twinVars

\* a run of syncVideos on p, vids and the ref last calls a callback of the
\* parent: onStreamEnd (line 111) or onSync (line 143)
CallbackInvoked(p, vids, last) ==
    LET r == SyncVideos(p, vids, last, DateNow(Me), serverTimeOffset[Me])
    IN  r.ended \/ Known(r.synced)

\* the check-loop effect (lines 162-182) run on props p and elements vids
\* after the cleanup left c, the callback that its first syncVideos() call
\* (line 167) invokes throwing: the effect ends there, before setInterval
\* and addEventListener, it returns no cleanup, and React takes the
\* instance off the page
CheckLoopEffectThrows(p, vids, c) ==
    /\ p.isLive /\ Known(p.scheduledStart)
    /\ CallbackInvoked(p, vids, syncLastSyncTime)
    /\ LET after == ProbesAfterGet(Me, probes[Me])
       IN  /\ Len(after) <= MaxProbes
           /\ probes' = [probes EXCEPT ![Me] = after]
    /\ syncTimers' = c.timers
    /\ listeners' = c.listeners
    /\ cleanupArmed' = FALSE
    /\ threw' = TRUE
    /\ syncMounted' = FALSE
    /\ videos' = NoVideos
    /\ syncLastSyncTime' = 0
    /\ checkIntervalId' = 0
    /\ seekLog' = NoSeeks
    /\ streamEnds' = 0
    /\ syncProps' = StreamProps(None, FALSE, None)
    /\ checks' = NoChecks
    /\ ready' = NoneReady

\* a mount whose first check calls a callback that throws
SyncMountThrows(p, face) ==
    /\ ~syncMounted
    /\ CheckLoopEffectThrows(p, Elements(face), Cleaned)
    /\ UNCHANGED <<now, skew, serverTimeOffset, isSynced, lastSyncTime,
                   lastProbe, reads>>
    /\ UNCHANGED hookVars
    /\ UNCHANGED pageVars
    /\ UNCHANGED chatVars
    /\ UNCHANGED twinVars

\* a render whose effect run calls a callback that throws
SyncRenderThrows(p) ==
    /\ syncMounted
    /\ CheckLoopEffectThrows(p, videos, Cleaned)
    /\ UNCHANGED <<now, skew, serverTimeOffset, isSynced, lastSyncTime,
                   lastProbe, reads>>
    /\ UNCHANGED hookVars
    /\ UNCHANGED pageVars
    /\ UNCHANGED chatVars
    /\ UNCHANGED twinVars

\* a check timer fires (line 171) and the run calls a callback that throws:
\* the exception leaves the timer callback, the timer stays set
SyncTickThrows ==
    /\ syncTimers # {}
    /\ CallbackInvoked(syncProps, videos, syncLastSyncTime)
    /\ RunSyncVideos(syncProps, videos, syncLastSyncTime, FALSE)
    /\ threw' = TRUE
    /\ UNCHANGED <<syncMounted, syncProps, checkIntervalId, syncTimers,
                   listeners, cleanupArmed, ready>>
    /\ UNCHANGED <<now, skew, serverTimeOffset, isSynced, lastSyncTime,
                   lastProbe, reads>>
    /\ UNCHANGED hookVars
    /\ UNCHANGED pageVars
    /\ UNCHANGED chatVars
    /\ UNCHANGED twinVars

\* handleVisibilityChange runs for a visible document (lines 151-157) and
\* its check calls a callback that throws: the listener stays registered
VisibilityChangeThrows ==
    /\ listeners > 0
    /\ CallbackInvoked(syncProps, videos,
                       VisibleLastSyncTime(syncLastSyncTime))
    /\ RunSyncVideos(syncProps, videos,
                     VisibleLastSyncTime(syncLastSyncTime), TRUE)
    /\ threw' = TRUE
    /\ UNCHANGED <<syncMounted, syncProps, checkIntervalId, syncTimers,
                   listeners, cleanupArmed, ready>>
    /\ UNCHANGED <<now, skew, serverTimeOffset, isSynced, lastSyncTime,
                   lastProbe, reads>>
    /\ UNCHANGED hookVars
    /\ UNCHANGED pageVars
    /\ UNCHANGED chatVars
    /\ UNCHANGED twinVars

\* ------------------------------------------------ useSession.sendMessage
\* message texts as sequences of characters
Contents == {<<>>, <<" ">>, <<"a">>, <<" ", "a", "b", " ">>}
\* the instants of a chat: a first message, the cooldown around its end
ChatInstants == {100000} \cup Upto(100000 + MESSAGE_COOLDOWN)
NoInserts == [last |-> None, closest |-> None, content |-> <<>>]

\* String.prototype.trim on a sequence of characters
RECURSIVE TrimStart(_)
TrimStart(c) ==
    IF c # <<>> /\ Head(c) = " " THEN TrimStart(Tail(c)) ELSE c
RECURSIVE TrimEnd(_)
TrimEnd(c) ==
    IF c # <<>> /\ c[Len(c)] = " " THEN TrimEnd(SubSeq(c, 1, Len(c) - 1))
    ELSE c
\* content.trim().slice(0, 500) (line 217)
Sanitized(content) ==
    LET t == TrimEnd(TrimStart(content))
    IN  SubSeq(t, 1, Min(Len(t), MAX_MESSAGE_LENGTH))

\* timeSinceLastMessage < 6000 (lines 209-212)
RateLimited(dateNow, last) == dateNow - last < MESSAGE_COOLDOWN

\* the rows of messages after one more was inserted at true time t
InsertsAfter(t, content) ==
    LET gap == IF Known(inserts.last) THEN Some(t - Val(inserts.last))
               ELSE None
    IN  [last |-> Some(t),
         closest |-> IF ~Known(gap) THEN inserts.closest
                     ELSE IF ~Known(inserts.closest) THEN gap
                     ELSE Some(Min(Val(gap), Val(inserts.closest))),
         content |-> content]

\* the client calls sendMessage(content): the rate-limit test and the
\* sanitising, up to `await supabase.auth.getUser()` (lines 204-224)
SendMessage(content) ==
    /\ Len(sends) < MaxSends
    /\ IF RateLimited(DateNow(Me), lastMessageTime)
       THEN sendResult' = "wait" /\ UNCHANGED sends
       ELSE IF Sanitized(content) = <<>>
       THEN sendResult' = "empty" /\ UNCHANGED sends
       ELSE /\ sendResult' = "pending"
            /\ sends' = Append(sends, [now |-> DateNow(Me), stage |-> "user",
                                       content |-> Sanitized(content)])
    /\ UNCHANGED <<lastMessageTime, inserts>>
    /\ UNCHANGED timeVars
    /\ UNCHANGED hookVars
    /\ UNCHANGED pageVars
    /\ UNCHANGED syncVars
    /\ UNCHANGED twinVars

\* getUser answers call i (lines 224-228), then the profile is asked for
GetUserReturns(i, ok) ==
    /\ i \in 1..Len(sends)
    /\ sends[i].stage = "user"
    /\ IF ok
       THEN /\ sends' = [sends EXCEPT ![i].stage = "profile"]
            /\ UNCHANGED sendResult
       ELSE /\ sends' = RemoveAt(sends, i)
            /\ sendResult' = "unauthenticated"
    /\ UNCHANGED <<lastMessageTime, inserts>>
    /\ UNCHANGED timeVars
    /\ UNCHANGED hookVars
    /\ UNCHANGED pageVars
    /\ UNCHANGED syncVars
    /\ UNCHANGED twinVars

\* the profile query answers call i (lines 231-235), then the insert is sent
ProfileReturns(i) ==
    /\ i \in 1..Len(sends)
    /\ sends[i].stage = "profile"
    /\ sends' = [sends EXCEPT ![i].stage = "insert"]
    /\ UNCHANGED <<lastMessageTime, sendResult, inserts>>
    /\ UNCHANGED timeVars
    /\ UNCHANGED hookVars
    /\ UNCHANGED pageVars
    /\ UNCHANGED syncVars
    /\ UNCHANGED twinVars

\* the insert of call i answers (lines 238-249): with the row stored, the
\* ref takes the `now` of the call; with an error, the call throws
InsertReturns(i, ok) ==
    /\ i \in 1..Len(sends)
    /\ sends[i].stage = "insert"
    /\ sends' = RemoveAt(sends, i)
    /\ IF ok
       THEN /\ inserts' = InsertsAfter(now, sends[i].content)
            /\ lastMessageTime' = sends[i].now
            /\ sendResult' = "sent"
       ELSE /\ sendResult' = "failed"
            /\ UNCHANGED <<lastMessageTime, inserts>>
    /\ UNCHANGED timeVars
    /\ UNCHANGED hookVars
    /\ UNCHANGED pageVars
    /\ UNCHANGED syncVars
    /\ UNCHANGED twinVars

\* ------------------------------------------ StreamSync.tsx: useStreamSync
\* the element behind the videoRef of the hook
HookElement(currentTime, duration) ==
    [currentTime |-> currentTime, duration |-> duration]

\* syncVideo of useStreamSync (lines 204-220) on props p, the element video
\* and lastSyncTime.current = last: the element and the ref after the call
SyncVideo(p, video, last, dateNow, offset) ==
    LET idle == [video |-> video, lastSyncTime |-> last]
        expectedTime == ExpectedTime(p, dateNow, offset)
    IN  IF ~Known(video) \/ ~p.isLive THEN idle
        ELSE IF ~Known(expectedTime) THEN idle
        ELSE IF /\ \/ Drifted(Val(video).currentTime, Val(expectedTime))
                   \/ CooledDown(dateNow, last)
                /\ Known(Val(video).duration)
                /\ Val(Val(video).duration) # 0
                /\ Val(expectedTime)
                      <= Val(Val(video).duration) * UnitsPerSecond
             THEN [video |-> Some([Val(video) EXCEPT
                                     !.currentTime = Val(expectedTime)]),
                   lastSyncTime |-> dateNow]
        ELSE idle

\* one event reaches the component and the hook side by side: both run
\* their check on the props p, each on its own element and ref; resume
\* tells that the event is a visibility change of a visible document
TwinRun(p, resume) ==
    LET last == IF resume THEN VisibleLastSyncTime(syncLastSyncTime)
                ELSE syncLastSyncTime
        hookLast == IF resume THEN 0 ELSE hookLastSyncTime
        r == SyncVideos(p, videos, last, DateNow(Me), serverTimeOffset[Me])
        h == SyncVideo(p, hookVideo, hookLast, DateNow(Me),
                       serverTimeOffset[Me])
        asks == p.isLive /\ Known(p.scheduledStart)
        once == IF asks /\ Known(videos.primary)
                THEN ProbesAfterGet(Me, probes[Me]) ELSE probes[Me]
        after == IF asks /\ Known(hookVideo)
                 THEN ProbesAfterGet(Me, once) ELSE once
    IN  /\ videos' = r.videos
        /\ syncLastSyncTime' = r.lastSyncTime
        /\ Len(after) <= MaxProbes
        /\ probes' = [probes EXCEPT ![Me] = after]
        /\ checks' = [seq |-> 1 - checks.seq, resume |-> resume,
                      seeked |-> {x \in Targets : r.videos[x] # videos[x]},
                      synced |-> r.synced]
        /\ seekLog' = SeekLogAfter(videos, r.videos, resume)
        /\ streamEnds' = IF r.ended THEN Min(streamEnds + 1, MaxEnds)
                         ELSE streamEnds
        /\ hookVideo' = h.video
        /\ hookLastSyncTime' = h.lastSyncTime
        /\ hookSeeked' = (h.video # hookVideo)

\* a component instance and a hook instance are mounted on the same props,
\* each with its own element of the same media (lines 162-182, 222-240:
\* the effect of the hook makes no first check)
TwinMount(p, duration) ==
    /\ ~syncMounted
    /\ syncMounted' = TRUE
    /\ syncProps' = p
    /\ CheckLoopEffect(p, Elements(None), Cleaned)
    /\ ready' = [x \in Targets |-> x = "primary"]
    /\ threw' = FALSE
    /\ hookVideo' = Some(HookElement(0, duration))
    /\ hookLastSyncTime' = 0
    /\ hookSeeked' = FALSE
    /\ UNCHANGED <<now, skew, serverTimeOffset, isSynced, lastSyncTime,
                   lastProbe, reads>>
    /\ UNCHANGED hookVars
    /\ UNCHANGED pageVars
    /\ UNCHANGED chatVars

\* the check timers of both fire (lines 171, 225)
TwinTick ==
    /\ syncTimers # {}
    /\ Known(hookVideo)
    /\ TwinRun(syncProps, FALSE)
    /\ threw' = FALSE
    /\ UNCHANGED <<syncMounted, syncProps, checkIntervalId, syncTimers,
                   listeners, cleanupArmed, ready>>
    /\ UNCHANGED <<now, skew, serverTimeOffset, isSynced, lastSyncTime,
                   lastProbe, reads>>
    /\ UNCHANGED hookVars
    /\ UNCHANGED pageVars
    /\ UNCHANGED chatVars

\* the document becomes visible again: both handlers run (lines 151-157,
\* 227-232)
TwinVisible ==
    /\ listeners > 0
    /\ Known(hookVideo)
    /\ TwinRun(syncProps, TRUE)
    /\ threw' = FALSE
    /\ UNCHANGED <<syncMounted, syncProps, checkIntervalId, syncTimers,
                   listeners, cleanupArmed, ready>>
    /\ UNCHANGED <<now, skew, serverTimeOffset, isSynced, lastSyncTime,
                   lastProbe, reads>>
    /\ UNCHANGED hookVars
    /\ UNCHANGED pageVars
    /\ UNCHANGED chatVars

\* playback brings both elements to the same position
TwinPlayback ==
    /\ syncMounted
    /\ Known(hookVideo)
    /\ \E to \in Positions :
         /\ videos' = [videos EXCEPT !.primary = Some(to)]
         /\ hookVideo' = Some([Val(hookVideo) EXCEPT !.currentTime = to])
         /\ (videos' # videos \/ hookVideo' # hookVideo)
    /\ UNCHANGED <<syncMounted, syncProps, syncLastSyncTime, checkIntervalId,
                   syncTimers, listeners, cleanupArmed, checks, seekLog,
                   streamEnds, ready, threw>>
    /\ UNCHANGED <<hookLastSyncTime, hookSeeked>>
    /\ UNCHANGED timeVars
    /\ UNCHANGED hookVars
    /\ UNCHANGED pageVars
    /\ UNCHANGED chatVars

InitTime ==
    /\ serverTimeOffset = [v \in Viewers |-> 0]
    /\ isSynced = [v \in Viewers |-> FALSE]
    /\ lastSyncTime = [v \in Viewers |-> 0]
    /\ probes = [v \in Viewers |-> <<>>]
    /\ lastProbe = [v \in Viewers |->
            [ok |-> FALSE, clientBefore |-> 0, clientAfter |-> 0,
             serverTime |-> 0]]
    /\ reads = [v \in Viewers |-> [seq |-> 0, value |-> 0]]

InitHook ==
    /\ props = NoSchedule
    /\ state = "loading"
    /\ secondsToStart = 0
    /\ liveOffset = 0
    /\ isTimeSynced = FALSE
    /\ interval = FALSE
    /\ initialSync = "unmounted"
    /\ mountProps = NoSchedule

InitPage ==
    /\ session = None
    /\ loading = TRUE
    /\ error = ""
    /\ pendingLoads = 0
    /\ refreshTimers = 0

InitSync ==
    /\ syncMounted = FALSE
    /\ syncProps = StreamProps(None, FALSE, None)
    /\ videos = NoVideos
    /\ syncLastSyncTime = 0
    /\ checkIntervalId = 0
    /\ syncTimers = {}
    /\ listeners = 0
    /\ cleanupArmed = FALSE
    /\ checks = NoChecks
    /\ seekLog = NoSeeks
    /\ streamEnds = 0
    /\ ready = NoneReady
    /\ threw = FALSE

InitChat ==
    /\ lastMessageTime = 0
    /\ sends = <<>>
    /\ sendResult = "none"
    /\ inserts = NoInserts

InitTwin ==
    /\ hookVideo = None
    /\ hookLastSyncTime = 0
    /\ hookSeeked = FALSE

\* ------------------------------------------- specification: time authority
\* one viewer and the time source: probes, failures, reads
TimeInit ==
    /\ InitTime /\ InitHook /\ InitPage /\ InitSync /\ InitChat
    /\ InitTwin
    /\ now = First(ProbeInstants)
    /\ skew \in {[v \in Viewers |-> IF v = Me THEN k ELSE 0] : k \in Skews}

TimeNext ==
    \/ Advance(TimeInstants)
    \/ StartProbe(Me)
    \/ ProbeSucceeds(Me)
    \/ ProbeFails(Me)
    \/ GetServerTime(Me)

TimeSpec == TimeInit /\ [][TimeNext]_vars

\* ------------------------------------------ specification: periodic refresh
\* initServerTime called by the mounts of the session page, the refresh
\* intervals it sets, and their probes
RefreshInit == TimeInit

RefreshNext ==
    \/ Advance(ProbeInstants)
    \/ InitServerTime(Me)
    \/ RefreshTick(Me)
    \/ ProbeSucceeds(Me)
    \/ ProbeFails(Me)

RefreshSpec == RefreshInit /\ [][RefreshNext]_vars

\* ------------------------------------------------ specification: two clocks
\* two viewers with their own clocks probe the one time source
SkewInit ==
    /\ InitTime /\ InitHook /\ InitPage /\ InitSync /\ InitChat
    /\ InitTwin
    /\ now = First(ProbeInstants)
    /\ skew \in [Viewers -> Skews]

SkewNext ==
    \/ Advance(ProbeInstants)
    \/ \E v \in Viewers : StartProbe(v)
    \/ \E v \in Viewers : ProbeSucceeds(v)
    \/ \E v \in Viewers : ProbeFails(v)

SkewSpec == SkewInit /\ [][SkewNext]_vars

\* --------------------------------------------- specification: the lifecycle
\* useSessionState of one viewer under changing options, ticks and probes
HookInit ==
    /\ InitTime /\ InitHook /\ InitPage /\ InitSync /\ InitChat
    /\ InitTwin
    /\ now = First(Instants)
    /\ skew \in {[v \in Viewers |-> IF v = Me THEN k ELSE 0] : k \in MySkews}

HookNext ==
    \/ Tick
    \/ \E p \in MountOptions : Mount(p)
    \/ \E p \in HookOptions : SetInputs(p)
    \/ ProbeSucceeds(Me)
    \/ ProbeFails(Me)
    \/ Advance(Instants)

HookSpec == HookInit /\ [][HookNext]_vars

\* the lifecycle with its 100 ms timer firing for as long as it is set
\* (line 149) and every fetch of a probe answering or failing in the end
HookFairSpec ==
    /\ HookInit /\ [][HookNext]_vars
    /\ WF_vars(Tick)
    /\ WF_vars(ProbeSucceeds(Me) \/ ProbeFails(Me))

\* ------------------------------------- specification: unreachable source
\* the lifecycle and the reads of one viewer while every fetch of the time
\* source fails
DownInit ==
    /\ InitTime /\ InitHook /\ InitPage /\ InitSync /\ InitChat
    /\ InitTwin
    /\ now = First(ProbeInstants)
    /\ skew \in {[v \in Viewers |-> IF v = Me THEN k ELSE 0] : k \in MySkews}

DownNext ==
    \/ Tick
    \/ \E p \in MountOptions : Mount(p)
    \/ \E p \in MountOptions : SetInputs(p)
    \/ GetServerTime(Me)
    \/ ProbeFails(Me)
    \/ Advance(ProbeInstants)

DownSpec == DownInit /\ [][DownNext]_vars

\* --------------------------------------------- specification: session page
\* SessionPage of one viewer: the schedule source, the lifecycle, the probes
PageInit ==
    /\ InitTime /\ InitHook /\ InitPage /\ InitSync /\ InitChat
    /\ InitTwin
    /\ now = First(PageInstants)
    /\ skew \in {[v \in Viewers |-> IF v = Me THEN k ELSE 0] : k \in MySkews}

PageNext ==
    \/ Tick
    \/ PageMount
    \/ ChangeBatch
    \/ LoadBatchFound
    \/ LoadBatchMissing
    \/ LoadBatchThrows
    \/ ProbeSucceeds(Me)
    \/ ProbeFails(Me)
    \/ Advance(PageInstants)

PageSpec == PageInit /\ [][PageNext]_vars

\* ------------------------------------------- specification: drift corrector
\* one StreamSync instance of a viewer whose clock is fast: renders, ticks,
\* visibility events, playback, and the probes its reads of the server time
\* start, which the time source answers
SyncInit ==
    /\ InitTime /\ InitHook /\ InitPage /\ InitSync /\ InitChat
    /\ InitTwin
    /\ now = First(SyncInstants)
    /\ skew \in {[v \in Viewers |-> IF v = Me THEN k ELSE 0] : k \in MySkews \ {0}}

SyncNext ==
    \/ \E p \in StreamOptions, face \in {None, Some(0)} :
          SyncMount(p, face, AllLoaded)
    \/ \E p \in StreamOptions : SyncRender(p)
    \/ SyncUnmount
    \/ SyncTick
    \/ \E visible \in BOOLEAN : VisibilityChange(visible)
    \/ Playback
    \/ ProbeSucceeds(Me)
    \/ SyncAdvance

SyncSpec == SyncInit /\ [][SyncNext]_vars

\* ----------------------------------------------------- specification: chat
\* one useSession client sending messages, its calls overlapping or not
ChatInit ==
    /\ InitTime /\ InitHook /\ InitPage /\ InitSync /\ InitChat
    /\ InitTwin
    /\ now = First(ChatInstants)
    /\ skew \in {[v \in Viewers |-> IF v = Me THEN k ELSE 0] : k \in MySkews}

ChatNext ==
    \/ \E content \in Contents : SendMessage(content)
    \/ \E i \in 1..MaxSends, ok \in BOOLEAN : GetUserReturns(i, ok)
    \/ \E i \in 1..MaxSends : ProfileReturns(i)
    \/ \E i \in 1..MaxSends, ok \in BOOLEAN : InsertReturns(i, ok)
    \/ Advance(ChatInstants)

ChatSpec == ChatInit /\ [][ChatNext]_vars

\* ------------------------------------ specification: component and hook
\* a StreamSync instance and a useStreamSync instance driven side by side
TwinOptions ==
    {StreamProps(Some(100000), TRUE, None),
     StreamProps(Some(100000), TRUE, Some(13))}

TwinInit == SyncInit

TwinNext ==
    \/ \E p \in TwinOptions, duration \in {None, Some(13)} :
          TwinMount(p, duration)
    \/ TwinTick
    \/ TwinVisible
    \/ TwinPlayback
    \/ ProbeSucceeds(Me)
    \/ SyncAdvance

TwinSpec == TwinInit /\ [][TwinNext]_vars

\* ------------------------------- specification: unloaded media, callbacks
\* one StreamSync instance whose elements get their media after the mount
\* and whose parent passes callbacks that may throw
FaultOptions ==
    {StreamProps(Some(100000), FALSE, None),
     StreamProps(Some(100000), TRUE, Some(13))}

FaultInit == SyncInit

FaultNext ==
    \/ \E p \in FaultOptions, face \in {None, Some(0)},
          loaded \in [Targets -> BOOLEAN] : SyncMount(p, face, loaded)
    \/ \E p \in FaultOptions, face \in {None, Some(0)} :
          SyncMountThrows(p, face)
    \/ \E p \in FaultOptions : SyncRender(p)
    \/ \E p \in FaultOptions : SyncRenderThrows(p)
    \/ SyncUnmount
    \/ SyncTick
    \/ SyncTickThrows
    \/ \E visible \in BOOLEAN : VisibilityChange(visible)
    \/ VisibilityChangeThrows
    \/ Playback
    \/ \E x \in Targets : MediaLoaded(x)
    \/ ProbeSucceeds(Me)
    \/ SyncAdvance

FaultSpec == FaultInit /\ [][FaultNext]_vars

\* ------------------------------------------------------------------- claims
\* a probe of v has completed, the last one succeeded, and its request and
\* its response took the same time
SymmetricProbe(v) ==
    /\ isSynced[v]
    /\ lastProbe[v].ok
    /\ LatencyDivisor * lastProbe[v].serverTime =
         (lastProbe[v].clientBefore - skew[v])
            + (lastProbe[v].clientAfter - skew[v])
RoundTrip(v) == lastProbe[v].clientAfter - lastProbe[v].clientBefore
AuthoritativeNow(v) == LatencyDivisor * (now + skew[v]) + serverTimeOffset[v]

\* C1: two viewers with different constant clock skews whose latest probe
\* succeeded with symmetric latency read the same authoritative time at the
\* same instant, hence the same live offset and the same lifecycle state.
C1_SkewedViewersAgree ==
    \A v, w \in Viewers :
        SymmetricProbe(v) /\ SymmetricProbe(w) =>
            /\ AuthoritativeNow(v) = AuthoritativeNow(w)
            /\ \A s \in StartTimes :
                 LET ov == AuthoritativeNow(v) - LatencyDivisor * s
                     ow == AuthoritativeNow(w) - LatencyDivisor * s
                 IN  /\ ov = ow
                     /\ \A d \in {None} \cup {Some(x) : x \in Durations} :
                            DeriveState(ov, d) = DeriveState(ow, d)
C1_Witness ==
    /\ SymmetricProbe(1) /\ SymmetricProbe(2)
    /\ skew[1] # skew[2]
    /\ RoundTrip(1) = 2 /\ RoundTrip(2) = 0

\* the live offset of the calculateState run that set the current state
LastOffset == 0 - secondsToStart
\* the state was set by a calculateState run on the current options
CalculatedOnProps ==
    /\ state # "loading"
    /\ Present(props)
    /\ initialSync # "done" \/ ~Present(mountProps) \/ mountProps = props

\* C2: a state set by calculateState on a present, active schedule follows
\* the priority chain on the live offset whatever the duration: scheduled iff
\* offset < -60, countdown iff -60 <= offset < 0, starting iff
\* 0 <= offset < 3, and live for offset >= 3 with unknown duration.
C2_PriorityChain ==
    state # "loading" =>
        /\ (state = "scheduled") =
             (LastOffset < (0 - COUNTDOWN_THRESHOLD) * UnitsPerSecond)
        /\ (state = "countdown") =
             (/\ LastOffset >= (0 - COUNTDOWN_THRESHOLD) * UnitsPerSecond
              /\ LastOffset < 0)
        /\ (state = "starting") =
             (/\ LastOffset >= 0
              /\ LastOffset < STARTING_DURATION * UnitsPerSecond)
        /\ (/\ CalculatedOnProps
            /\ ~Known(props.videoDuration)
            /\ LastOffset >= STARTING_DURATION * UnitsPerSecond)
              => state = "live"
C2_Witness ==
    /\ state = "countdown"
    /\ LastOffset = (0 - COUNTDOWN_THRESHOLD) * UnitsPerSecond
    /\ Known(props.videoDuration)

C5_EndedAbsorbing == [][state = "ended" => state' = "ended"]_vars

\* C6 as claimed: whenever the options have no scheduledStart or are not
\* active, the state of the mounted hook is loading.
C6_AbsentIsLoading ==
    (initialSync # "unmounted" /\ ~Present(props)) => state = "loading"

\* the schedule source had no data for the session id and no load succeeded
FirstLoadMissing ==
    /\ error = "Session not found"
    /\ ~Known(session)
    /\ pendingLoads = 0

\* C7 as claimed: no data at the first load makes the lifecycle state error.
C7_MissingScheduleIsError == FirstLoadMissing => state = "error"
\* C7 amended: no data at the first load leaves the session null with the
\* error "Session not found" while the lifecycle state stays loading; the
\* state is never error, so no later schedule failure moves it to error.
C7_MissingScheduleStaysLoading ==
    /\ state # "error"
    /\ FirstLoadMissing => (state = "loading" /\ ~loading /\ ~interval)
C7_Witness ==
    /\ FirstLoadMissing
    /\ initialSync = "done"
    /\ state = "loading"

\* a probe of v resumes in this step
ProbeCompletes(v) == Len(probes'[v]) < Len(probes[v])

\* C8 as claimed: a probe that fails changes neither serverTimeOffset nor
\* isSynced.
C8_FailedProbeKeepsReference ==
    [][\A v \in Viewers :
          (ProbeCompletes(v) /\ ~lastProbe'[v].ok) =>
              /\ serverTimeOffset'[v] = serverTimeOffset[v]
              /\ isSynced'[v] = isSynced[v]]_vars

\* C9: after a successful probe sent at t0, received at t1 and answered S,
\* serverTimeOffset = S - (t0 + (t1 - t0)/2), and S - t0 when t1 = t0.
C9_OffsetFormula ==
    \A v \in Viewers :
        (isSynced[v] /\ lastProbe[v].ok) =>
            LET t0 == lastProbe[v].clientBefore
                t1 == lastProbe[v].clientAfter
                S == lastProbe[v].serverTime
            IN  /\ serverTimeOffset[v] + (t1 - t0) = LatencyDivisor * (S - t0)
                /\ t1 = t0 => serverTimeOffset[v] = LatencyDivisor * (S - t0)
C9_Witness ==
    /\ isSynced[Me] /\ lastProbe[Me].ok
    /\ RoundTrip(Me) = 1
    /\ lastProbe[Me].serverTime = lastProbe[Me].clientAfter - skew[Me]

\* the offset the probe that completed last wrote, 0 before any completed
WrittenOffset(v) ==
    IF ~isSynced[v] THEN 0
    ELSE LatencyDivisor * lastProbe[v].serverTime
            - lastProbe[v].clientBefore - lastProbe[v].clientAfter

\* C10: a getServerTime call returns localNow + serverTimeOffset in the
\* calling step, serverTimeOffset being 0 before any probe completed and
\* otherwise what the last completed probe wrote, and leaves
\* serverTimeOffset, isSynced and lastSyncTime unchanged.
C10_GetServerTimeReads ==
    [][\A v \in Viewers :
          reads'[v] # reads[v] =>
              /\ reads'[v].value =
                    LatencyDivisor * (now + skew[v]) + WrittenOffset(v)
              /\ serverTimeOffset'[v] = serverTimeOffset[v]
              /\ isSynced'[v] = isSynced[v]
              /\ lastSyncTime'[v] = lastSyncTime[v]]_vars
C10_Witness ==
    /\ reads[Me].seq = 1
    /\ isSynced[Me] /\ ~lastProbe[Me].ok
    /\ serverTimeOffset[Me] # 0
    /\ reads[Me].value = AuthoritativeNow(Me)
    /\ Len(probes[Me]) > 0
    /\ now - (lastSyncTime[Me] - skew[Me]) > SYNC_INTERVAL

\* C20 as claimed: on the session page, once the lifecycle has been
\* calculated for a loaded, valid session that has a stored stream-end record
\* at an authoritative offset that is past the stored duration (and past the
\* starting phase), the page shows the session-ended screen.
C20_StoredDurationEnds ==
    (/\ Known(session)
     /\ Val(session).isValid
     /\ Known(Val(session).videoDuration)
     /\ ~loading /\ error = ""
     /\ props = PageOptions(session)
     /\ CalculatedOnProps
     /\ LastOffset >= STARTING_DURATION * UnitsPerSecond
     /\ LastOffset >= Val(Val(session).videoDuration) * UnitsPerSecond)
        => Screen = "ended"

\* -------------------------------------------------------- claims: StreamSync
\* a run of syncVideos is part of this step of the mounted instance
CheckRan == syncMounted' /\ checks'.seq # checks.seq
\* and it seeked target x
SeekIn(x) == CheckRan /\ x \in checks'.seeked
\* the element behind target x as the check of this step found it
Found(x) ==
    IF syncMounted THEN videos[x]
    ELSE IF Known(videos'[x]) THEN Some(0) ELSE None
\* authoritative now minus the scheduled start of props p, half-ms
ExpectedPosition(p) ==
    AuthoritativeNow(Me) - LatencyDivisor * Val(p.scheduledStart)
\* the distance of target x from the expected position of props p, half-ms
DriftOf(x, p) == Abs(Val(Found(x)) - ExpectedPosition(p))
Threshold == DRIFT_THRESHOLD * LatencyDivisor

PastDuration(p) ==
    /\ Known(p.videoDuration)
    /\ ExpectedPosition(p) >= Val(p.videoDuration) * UnitsPerSecond
\* no target was corrected within the last MIN_SYNC_INTERVAL of local clock
NoRecentCorrection ==
    \A y \in Targets :
        \/ ~Known(seekLog[y].last)
        \/ DateNow(Me) - Val(seekLog[y].last) >= MIN_SYNC_INTERVAL

\* C12 as claimed: in a run of syncVideos with the stream live, the expected
\* position known, not negative and short of the duration, and no correction
\* within the cooldown, every target that is there and is 0.5 s or more off
\* is set to the expected position, whatever the other target's drift.
C12_EveryTargetCorrected ==
    [][\A x \in Targets :
          (/\ CheckRan
           /\ syncProps'.isLive
           /\ Known(syncProps'.scheduledStart)
           /\ Known(Found(x))
           /\ ExpectedPosition(syncProps') >= 0
           /\ ~PastDuration(syncProps')
           /\ NoRecentCorrection
           /\ DriftOf(x, syncProps') >= Threshold)
              => videos'[x] = Some(ExpectedPosition(syncProps'))]_vars

\* C13: two consecutive seeks of the same target by one mounted instance are
\* at least MIN_SYNC_INTERVAL of local clock apart unless a
\* visibility-resume event came between them, whatever ticks and effect
\* runs made the checks.
C13_RateLimit ==
    \A x \in Targets :
        (Known(seekLog[x].prev) /\ ~seekLog[x].between) =>
            Val(seekLog[x].last) - Val(seekLog[x].prev) >= MIN_SYNC_INTERVAL
C13_Witness ==
    /\ \A x \in Targets :
         /\ Known(seekLog[x].prev) /\ ~seekLog[x].between
         /\ Val(seekLog[x].last) - Val(seekLog[x].prev) = MIN_SYNC_INTERVAL
    /\ checks.seeked = Targets
    /\ ~checks.resume

\* C14: when handleVisibilityChange runs for a document that is visible
\* again, the stream being live, the expected position not negative and short
\* of the duration, a primary that is 0.5 s or more off is set to the
\* expected position in that step, however recent the previous correction.
C14_ResumeCorrectsAtOnce ==
    [][(/\ CheckRan
        /\ checks'.resume
        /\ syncProps.isLive
        /\ Known(syncProps.scheduledStart)
        /\ Known(videos["primary"])
        /\ ExpectedPosition(syncProps) >= 0
        /\ ~PastDuration(syncProps)
        /\ DriftOf("primary", syncProps) >= Threshold)
          => /\ videos'["primary"] = Some(ExpectedPosition(syncProps))
             /\ SeekIn("primary")]_vars
C14_Witness ==
    /\ checks.resume
    /\ "primary" \in checks.seeked
    /\ Known(seekLog["primary"].prev)
    /\ Val(seekLog["primary"].last) - Val(seekLog["primary"].prev)
          < MIN_SYNC_INTERVAL

\* C15: a visibility-resume event lifts the rate limit once: of the seeks of
\* a target since the last resume event at most one is closer than
\* MIN_SYNC_INTERVAL to the seek before it, also when the check of the
\* resume handler itself seeked nothing and a later check used the bypass.
C15_BypassOnce == \A x \in Targets : seekLog[x].close <= 1
C15_Witness ==
    /\ seekLog["primary"].close = 1
    /\ seekLog["primary"].between
    /\ Val(seekLog["primary"].last) - Val(seekLog["primary"].prev)
          < MIN_SYNC_INTERVAL
    /\ "primary" \in checks.seeked
    /\ ~checks.resume

\* C16: no run of syncVideos (tick, effect run or visibility check) seeks a
\* target while scheduledStart is null or authoritative now is before it.
C16_NoSeekBeforeStart ==
    [][\A x \in Targets :
          SeekIn(x) =>
              /\ Known(syncProps'.scheduledStart)
              /\ ExpectedPosition(syncProps') >= 0]_vars
C16_Witness ==
    /\ syncMounted
    /\ syncProps.isLive
    /\ Known(syncProps.scheduledStart)
    /\ ExpectedPosition(syncProps) < 0
    /\ checks.resume
    /\ checks.seeked = {}
    /\ \A x \in Targets :
         Known(videos[x]) /\ Val(videos[x]) >= Threshold

\* C17 as claimed: once a check has signalled the end of the stream
\* (videoDuration known, expected >= videoDuration), neither that check nor
\* any later check of the instance on the same props seeks a target.
C17_NoSeekAfterEnd ==
    [][(syncProps' = syncProps /\ (streamEnds > 0 \/ streamEnds' > 0)) =>
          \A x \in Targets : ~SeekIn(x)]_vars

\* C18 as claimed: one mounted instance invokes onStreamEnd at most once.
C18_EndSignalledOnce == streamEnds <= 1

\* C19: one instance has at most one check timer and one visibilitychange
\* listener at any moment, across effect re-runs, and has neither once it is
\* unmounted, or isLive is false, or scheduledStart is null: no tick runs
\* and no seek is issued from then on.
C19_NoLeakedTimer ==
    /\ Cardinality(syncTimers) <= 1
    /\ listeners <= 1
    /\ (~syncMounted \/ ~syncProps.isLive \/ ~Known(syncProps.scheduledStart))
          => (syncTimers = {} /\ listeners = 0 /\ ~ENABLED SyncTick)
C19_Witness ==
    /\ syncMounted
    /\ ~syncProps.isLive
    /\ checkIntervalId = 2
    /\ syncTimers = {}
    /\ listeners = 0
    /\ Known(seekLog["primary"].last)

\* the documented trigger of 250 ms, half-ms
QuarterSecond == (DRIFT_THRESHOLD \div 2) * LatencyDivisor
\* C21 as claimed: in a run of syncVideos where correction is allowed
\* (stream live, expected position known, not negative and short of the
\* duration, no correction within the cooldown), every target that is
\* 250 ms or more off the expected position is set to the expected position.
C21_QuarterSecondTrigger ==
    [][\A x \in Targets :
          (/\ CheckRan
           /\ syncProps'.isLive
           /\ Known(syncProps'.scheduledStart)
           /\ Known(Found(x))
           /\ ExpectedPosition(syncProps') >= 0
           /\ ~PastDuration(syncProps')
           /\ NoRecentCorrection
           /\ DriftOf(x, syncProps') >= QuarterSecond)
              => /\ videos'[x] = Some(ExpectedPosition(syncProps'))
                 /\ SeekIn(x)]_vars

\* ------------------------------------------------- claims: refresh policy
\* v called getServerTime in this step
GetCalled(v) == reads'[v].seq # reads[v].seq
\* C26: a call of getServerTime starts a probe if and only if isSynced is
\* false or Date.now() is more than SYNC_INTERVAL (5 minutes) past
\* lastSyncTime: within the window a call starts no probe, past it the call
\* starts exactly one.
C26_RefreshPolicy ==
    [][\A v \in Viewers :
          GetCalled(v) =>
              IF ~isSynced[v] \/ DateNow(v) - lastSyncTime[v] > SYNC_INTERVAL
              THEN /\ Len(probes'[v]) = Len(probes[v]) + 1
                   /\ SubSeq(probes'[v], 1, Len(probes[v])) = probes[v]
              ELSE probes'[v] = probes[v]]_vars
C26_Witness ==
    /\ isSynced[Me]
    /\ lastProbe[Me].ok
    /\ DateNow(Me) - lastSyncTime[Me] = SYNC_INTERVAL + 1
    /\ Len(probes[Me]) = 1
    /\ probes[Me][1].clientBefore = DateNow(Me)
    /\ reads[Me].value = AuthoritativeNow(Me)

\* C28: every seek of a run of syncVideos sets the target's currentTime to
\* the one expected position of that run; when both targets are seeked in
\* one run they end at the same position.
C28_HardSeekToExpected ==
    [][/\ \A x \in Targets :
            SeekIn(x) =>
                /\ Known(syncProps'.scheduledStart)
                /\ videos'[x] = Some(ExpectedPosition(syncProps'))
       /\ (\A x \in Targets : SeekIn(x)) =>
              videos'["primary"] = videos'["face"]]_vars
C28_Witness ==
    /\ checks.seeked = Targets
    /\ Known(syncProps.scheduledStart)
    /\ videos["primary"] = videos["face"]
    /\ videos["face"] = Some(ExpectedPosition(syncProps))
    /\ seekLog["face"].last = Some(DateNow(Me))
    /\ Known(seekLog["face"].prev)

\* the ref lastSyncTime.current as the check of this step found it
RefBefore == IF checks'.resume THEN 0 ELSE syncLastSyncTime
\* C29: a run of syncVideos invokes onSync if and only if it seeked the
\* primary, with the expected position of that run, and stamps
\* lastSyncTime.current with Date.now() if and only if it seeked the
\* primary; a run that did not seek the primary leaves the ref as it was.
C29_SyncKeyedToPrimary ==
    [][CheckRan =>
          IF SeekIn("primary")
          THEN /\ checks'.synced = Some(ExpectedPosition(syncProps'))
               /\ syncLastSyncTime' = DateNow(Me)
          ELSE /\ checks'.synced = None
               /\ syncLastSyncTime' = RefBefore]_vars
C29_Witness ==
    /\ checks.seeked = {"primary"}
    /\ Known(checks.synced)
    /\ Known(videos["face"])
    /\ videos["primary"] = checks.synced
    /\ syncLastSyncTime = DateNow(Me)
    /\ Known(seekLog["primary"].prev)
    /\ syncLastSyncTime > Val(seekLog["primary"].prev)

\* ----------------------------------------------- claims: derived figures
\* the 100 ms timer of the lifecycle fired in this step
TickStep ==
    /\ interval
    /\ props' = props
    /\ initialSync' = initialSync
    /\ now' = now
    /\ Len(probes'[Me]) >= Len(probes[Me])
\* authoritative now minus the scheduled start of options p, half-ms
OffsetOf(p) == AuthoritativeNow(Me) - LatencyDivisor * Val(p.scheduledStart)
\* C30: the figures the lifecycle reports agree with each other and with
\* the state: liveOffset = max(0, -secondsToStart) >= 0; in scheduled and
\* countdown liveOffset = 0 and secondsToStart > 0; in starting, live and
\* ended secondsToStart <= 0 and liveOffset = -secondsToStart; and a tick on
\* an active schedule sets secondsToStart = -offset, liveOffset =
\* max(0, offset) for the offset of that tick.
C30_FiguresConsistent ==
    [][/\ liveOffset' >= 0
       /\ liveOffset' = Max(0, 0 - secondsToStart')
       /\ state' \in {"scheduled", "countdown"} =>
              (liveOffset' = 0 /\ secondsToStart' > 0)
       /\ state' \in {"starting", "live", "ended"} =>
              (secondsToStart' <= 0 /\ liveOffset' = 0 - secondsToStart')
       /\ (TickStep /\ Present(props)) =>
              /\ secondsToStart' = 0 - OffsetOf(props)
              /\ liveOffset' = Max(0, OffsetOf(props))]_vars
C30_Witness ==
    /\ Present(props)
    /\ state = "countdown"
    /\ liveOffset = 0
    /\ secondsToStart = 0 - OffsetOf(props)
    /\ secondsToStart = 1
    /\ isTimeSynced

\* ------------------------------------------ claims: unreachable time source
\* C22 as claimed: in a run where every fetch of the time source fails, no
\* probe has succeeded, so the isTimeSynced flag of useSessionState is
\* false throughout.
C22_UnsyncedWhileProbesFail == ~isTimeSynced

\* C27 as claimed: in a run where every fetch of the time source fails,
\* a call of getServerTime made after a probe has failed starts another
\* probe.
C27_FailedProbeRetried ==
    [][(/\ GetCalled(Me)
        /\ lastProbe[Me].clientAfter > 0
        /\ ~lastProbe[Me].ok)
          => Len(probes'[Me]) = Len(probes[Me]) + 1]_vars

\* ------------------------------------- claims: unloaded media, callbacks
\* C23 as claimed: no run of syncVideos seeks a target whose element has
\* not loaded its media yet.
C23_UnreadyNeverSeeked ==
    [][\A x \in Targets : SeekIn(x) => ready'[x]]_vars

\* C24 as claimed: after a run of syncVideos that a callback (onStreamEnd,
\* onSync) threw out of, the check timer of the loop is still set, also
\* when the run was the first check of an effect run.
C24_LoopSurvivesThrow == threw => syncTimers # {}

\* ------------------------------------------------------------ claims: chat
\* C25 as claimed: of the rows one client inserts into messages, no two are
\* less than 6 seconds apart, whatever the interleaving of its sendMessage
\* calls.
C25_InsertsSixSecondsApart ==
    Known(inserts.closest) => Val(inserts.closest) >= MESSAGE_COOLDOWN

\* ------------------------------------------------ claims: secondary target
\* C39: the face video is seeked only in runs of syncVideos that seek the
\* primary; in a run that finds the primary less than 0.5 s off, or finds
\* the ref lastSyncTime.current less than MIN_SYNC_INTERVAL old, the face
\* video's currentTime is left as it was, whatever its own drift.
C39_FaceFollowsPrimary ==
    [][CheckRan =>
          /\ SeekIn("face") => SeekIn("primary")
          /\ (/\ Known(Found("primary"))
              /\ Known(syncProps'.scheduledStart)
              /\ \/ DriftOf("primary", syncProps') < Threshold
                 \/ DateNow(Me) - RefBefore < MIN_SYNC_INTERVAL)
                => (videos'["face"] = Found("face") /\ ~SeekIn("face"))]_vars
C39_Witness ==
    /\ syncMounted
    /\ syncProps.isLive
    /\ Known(syncProps.scheduledStart)
    /\ checks.seeked = {}
    /\ checks.seq = 1
    /\ ExpectedPosition(syncProps) >= 0
    /\ ~PastDuration(syncProps)
    /\ Known(videos["face"])
    /\ Abs(Val(videos["face"]) - ExpectedPosition(syncProps)) >= Threshold
    /\ Abs(Val(videos["primary"]) - ExpectedPosition(syncProps)) < Threshold
    /\ Known(seekLog["face"].last)
    /\ DateNow(Me) - Val(seekLog["face"].last) >= MIN_SYNC_INTERVAL

\* ------------------------------------------- claims: component and hook
\* the hook ran syncVideo in this step
HookCheckRan == Known(hookVideo) /\ CheckRan
\* C38 as claimed: in a check that the component and the hook make on the
\* same props with their elements at the same position, the media of the
\* hook's element loaded, the hook seeks if and only if the component
\* seeks the primary; and the hook does not seek an element that is less
\* than 0.5 s off.
C38_HookDecidesAsComponent ==
    [][(/\ HookCheckRan
        /\ Known(Val(hookVideo).duration)
        /\ Known(videos["primary"])
        /\ Val(hookVideo).currentTime = Val(videos["primary"]))
          => /\ hookSeeked' <=> SeekIn("primary")
             /\ hookSeeked' => DriftOf("primary", syncProps) >= Threshold]_vars

\* ------------------------------------------------- claims: state order
\* the place of a state in scheduled < countdown < starting < live < ended
Rank(st) ==
    CASE st = "scheduled" -> 1
      [] st = "countdown" -> 2
      [] st = "starting" -> 3
      [] st = "live" -> 4
      [] st = "ended" -> 5
      [] OTHER -> 0
\* the state that belongs to offset o (half-ms) under the duration d
StateAt(o, d) ==
    IF o < 0
    THEN IF o < 0 - 60 * UnitsPerSecond THEN "scheduled" ELSE "countdown"
    ELSE IF o < 3 * UnitsPerSecond THEN "starting"
    ELSE IF Known(d) /\ Val(d) > 0 /\ o >= Val(d) * UnitsPerSecond
         THEN "ended"
    ELSE "live"
\* C37: a tick on an active schedule whose held state was derived for the
\* same videoDuration at an offset not later than the offset of this tick
\* (the schedule fixed, serverTimeOffset unchanged, the clock not gone
\* back) derives a state that is not earlier in the order scheduled <
\* countdown < starting < live < ended.
C37_StatesNeverRegress ==
    [][(/\ TickStep
        /\ Present(props)
        /\ Rank(state) > 0
        /\ state = StateAt(0 - secondsToStart, props.videoDuration)
        /\ 0 - secondsToStart <= OffsetOf(props))
          => Rank(state') >= Rank(state)]_vars
C37_Witness ==
    /\ Present(props)
    /\ interval
    /\ state = "ended"
    /\ Known(props.videoDuration)
    /\ Val(props.videoDuration) > STARTING_DURATION
    /\ OffsetOf(props) > Val(props.videoDuration) * UnitsPerSecond
    /\ secondsToStart = 0 - OffsetOf(props)

\* ------------------------------------------------ claims: refresh and probes
\* C35 as claimed: at most one syncServerTime call of a viewer is awaiting
\* the time source at any moment.
C35_OneProbeInFlight == \A v \in Viewers : Len(probes[v]) <= 1

\* C36 as claimed: at most one refresh interval set by initServerTime is
\* running at any time.
C36_OneRefreshTimer == refreshTimers <= 1

\* ---------------------------------------------- claims: persistent drift
\* C31: while the instance is mounted on live props with a schedule its
\* check timer is set, and every run of syncVideos that finds the stream
\* live, the expected position not negative and short of the duration, the
\* primary 0.5 s or more off and the previous correction MIN_SYNC_INTERVAL
\* or more of local clock ago seeks the primary to the expected position:
\* with the timer firing every CHECK_INTERVAL, a drift that persists is
\* corrected again within MIN_SYNC_INTERVAL + CHECK_INTERVAL.
C31_PersistentDriftCorrected ==
    [][/\ (syncMounted' /\ syncProps'.isLive
              /\ Known(syncProps'.scheduledStart)) => syncTimers' # {}
       /\ (/\ CheckRan
           /\ syncProps'.isLive
           /\ Known(syncProps'.scheduledStart)
           /\ Known(Found("primary"))
           /\ ExpectedPosition(syncProps') >= 0
           /\ ~PastDuration(syncProps')
           /\ DriftOf("primary", syncProps') >= Threshold
           /\ DateNow(Me) - RefBefore >= MIN_SYNC_INTERVAL)
             => /\ SeekIn("primary")
                /\ videos'["primary"] = Some(ExpectedPosition(syncProps'))
                /\ syncLastSyncTime' = DateNow(Me)]_vars
C31_Witness ==
    /\ syncMounted
    /\ syncTimers # {}
    /\ "primary" \in checks.seeked
    /\ ~checks.resume
    /\ ~seekLog["primary"].between
    /\ Known(seekLog["primary"].prev)
    /\ Val(seekLog["primary"].prev) > 0
    /\ Val(seekLog["primary"].last) - Val(seekLog["primary"].prev)
          = MIN_SYNC_INTERVAL
    /\ ~Known(videos["face"])
    /\ syncLastSyncTime = DateNow(Me)

\* ------------------------------------------------- claims: reaching live
\* an active schedule of unknown duration whose authoritative time is 3 s
\* or more past scheduledStart, the tick timer set
LiveDue ==
    /\ Present(props)
    /\ interval
    /\ ~Known(props.videoDuration)
    /\ OffsetOf(props) >= 3 * UnitsPerSecond
\* C32: with the tick timer firing, whenever an active schedule of unknown
\* duration is 3 s or more past its start by authoritative time, the state
\* becomes live, whatever it was, unless the schedule or the time changes
\* that first.
C32_EventuallyLive == [](LiveDue => <>(state = "live" \/ ~LiveDue))
C32_Witness ==
    /\ LiveDue
    /\ state = "live"
    /\ OffsetOf(props) = 3 * UnitsPerSecond
    /\ liveOffset = OffsetOf(props)

\* ------------------------------------------------- claims: session page
\* C33 as claimed: while the schedule stays present and active, a state
\* other than loading is never followed by loading.
C33_NoReturnToLoading ==
    [][(/\ Present(props)
        /\ props' = props
        /\ state # "loading")
          => state' # "loading"]_vars

\* C34 as claimed: with a session loaded, SessionPage renders the player
\* only in the state live.
C34_PlayerOnlyWhenLive ==
    (Known(session) /\ Screen = "player") => state = "live"

====
